---------------------------- MODULE Spec2Model ----------------------------
(***************************************************************************)
(* A model of the allocator of "CUSTOM MALLOC/Main.c": my_malloc, my_free, *)
(* my_calloc, my_realloc and my_malloc_stats over one break-grown arena.   *)
(*                                                                         *)
(* The heap is modelled as the memory it is: an array of 8-byte words in   *)
(* which the Block headers and the payloads both live, so that a header    *)
(* that lies inside a payload, a stale header and a header field that was  *)
(* never written read what the memory holds.  Addresses and sizes are in   *)
(* bytes and are SizeBits wide; every word of the model holds a value      *)
(* below 2^SizeBits.                                                       *)
(***************************************************************************)
EXTENDS Integers, Sequences, FiniteSets, TLC

\* ------------------------------------------------------------------ bounds
\* Width of size_t and of a pointer, scaled down from 64.
SizeBits == 8
\* Words (of ALIGNMENT bytes) the OS is willing to give the arena.
ArenaWords == 25
\* Calls (and client stores) in one run.
MaxOps == 5
\* Calls in one run in which my_malloc is given any size.
WideOps == 2
\* Calls in one run of my_malloc and my_free alone (five blocks, three frees).
CoalesceOps == 8
\* Calls in one run of my_malloc, my_free and my_realloc.
ResizeOps == 8
\* Calls in one run that ends with my_calloc of any arguments.
CallocOps == 3

\* ------------------------------------------------------- program constants
ALIGNMENT == 8
\* sizeof(Block) on LP64: size_t, unsigned int (+4 padding), two pointers.
SizeofBlock == 32
\* Offsets of the fields of Block.
OffSize == 0
OffFree == 8
OffNext == 16
OffPrev == 24

NULL == 0
M == 2 ^ SizeBits
\* The initial program break (8-byte aligned) and the end of what the OS gives.
Base == 2 * ALIGNMENT
Limit == Base + ALIGNMENT * ArenaWords
NW == ArenaWords
\* More iterations than there are distinct block addresses: a walk that uses
\* them up is in a cycle.
Fuel == ArenaWords + 2

\* ---------------------------------------------------------------- machine
\* size_t arithmetic.
Wrap(x) == ((x % M) + M) % M

\* A machine state m is the memory and the allocator's globals, with what
\* went wrong while running on it:
\*   fault: an access to unmapped memory (the process is killed)
\*   undef: undefined behaviour that may go through or kill the process:
\*          an access past the break but inside what the OS maps, or a
\*          memcpy between overlapping regions
\*   hung:  a list walk that does not end
\* Each statement of the code is an operator from machine states to machine
\* states; once fault is set the statements that follow do nothing.
Mapped(a) == a % ALIGNMENT = 0 /\ a >= Base /\ a + ALIGNMENT <= Limit
Idx(a) == (a - Base) \div ALIGNMENT

\* Load the word at a (0 where there is no memory: the access has faulted).
Ld(m, a) == IF Mapped(a) THEN m.mem[Idx(a)] ELSE 0

\* What accessing the word at a does to the flags.
Touch(m, a) ==
    IF m.fault THEN m
    ELSE IF ~Mapped(a) THEN [m EXCEPT !.fault = TRUE]
    ELSE IF a + ALIGNMENT > m.brk THEN [m EXCEPT !.undef = TRUE]
    ELSE m

StTouched(t, a, v) == IF t.fault THEN t ELSE [t EXCEPT !.mem[Idx(a)] = v]

\* Store v in the word at a.
St(m, a, v) == StTouched(Touch(m, a), a, v)

\* Dereference of a Block pointer: the four words of its header are accessed.
Deref(m, b) ==
    IF m.fault THEN m
    ELSE IF ~(Mapped(b) /\ Mapped(b + OffPrev)) THEN [m EXCEPT !.fault = TRUE]
    ELSE IF b + SizeofBlock > m.brk THEN [m EXCEPT !.undef = TRUE]
    ELSE m

Stopped(m) == m.fault \/ m.hung

\* The fields of the Block at b, and the assignments to them.
Bsize(m, b) == Ld(m, b + OffSize)
Bfree(m, b) == Ld(m, b + OffFree)
Bnext(m, b) == Ld(m, b + OffNext)
Bprev(m, b) == Ld(m, b + OffPrev)
set_size(m, b, v) == St(m, b + OffSize, v)
set_free(m, b, v) == St(m, b + OffFree, v)
set_next(m, b, v) == St(m, b + OffNext, v)
set_prev(m, b, v) == St(m, b + OffPrev, v)

\* #define ALIGN(size) (((size) + (ALIGNMENT - 1)) & ~(ALIGNMENT -1))
ALIGN(size) == Wrap(size + (ALIGNMENT - 1)) - (Wrap(size + (ALIGNMENT - 1)) % ALIGNMENT)

\* ------------------------------------------------------------- my_malloc
\* The value sbrk returns when the OS refuses: (void *)-1.
SbrkFailed == M - 1

\* The increment of sbrk is an intptr_t: a size of 2^(SizeBits-1) or more is
\* a negative increment.
AsSigned(x) == IF x >= M \div 2 THEN x - M ELSE x

\* sbrk(increment).  The OS gives no memory past Limit and takes none below
\* the initial break.
sbrk(m, increment) ==
    IF m.brk + AsSigned(increment) > Limit \/ m.brk + AsSigned(increment) < Base
    THEN [m |-> m, ret |-> SbrkFailed]
    ELSE [m |-> [m EXCEPT !.brk = m.brk + AsSigned(increment)], ret |-> m.brk]

\* (mutant) the test of line 79 with > for >=.
malloc_fits_strict(m, current, aligned_size) ==
    Bfree(m, current) = 1 /\ Bsize(m, current) > aligned_size

\* The test of line 79.
malloc_fits(m, current, aligned_size) ==
    Bfree(m, current) = 1 /\ Bsize(m, current) >= aligned_size

\* The search loop (lines 76-104): the first block from current, following
\* next, that fits; NULL when the walk ends.
RECURSIVE malloc_search(_, _, _, _)
RECURSIVE malloc_search_at(_, _, _, _)
malloc_search(m, current, aligned_size, fuel) ==
    IF current = NULL THEN [m |-> m, blk |-> NULL]
    ELSE IF fuel = 0 THEN [m |-> [m EXCEPT !.hung = TRUE], blk |-> NULL]
    ELSE malloc_search_at(Deref(m, current), current, aligned_size, fuel)

malloc_search_at(d, current, aligned_size, fuel) ==
    IF d.fault THEN [m |-> d, blk |-> NULL]
    ELSE IF malloc_fits(d, current, aligned_size) THEN [m |-> d, blk |-> current]
    ELSE malloc_search(d, Bnext(d, current), aligned_size, fuel - 1)

\* Whether the found block is split (line 83).
malloc_splits(m, current, aligned_size) ==
    Bsize(m, current) >= Wrap(aligned_size + SizeofBlock + ALIGNMENT)

\* Line 86: new_block->size = current->size - aligned_size - sizeof(Block).
split_set_size(m, new_block, current, aligned_size) ==
    set_size(m, new_block, Wrap(Bsize(m, current) - aligned_size - SizeofBlock))

\* Line 88 and line 300: new_block->next = current->next.
split_copy_next(m, new_block, current) == set_next(m, new_block, Bnext(m, current))

\* Lines 91-93: if (new_block->next != NULL) new_block->next->prev = new_block.
split_fix_prev(m, new_block) ==
    IF Bnext(m, new_block) # NULL THEN set_prev(m, Bnext(m, new_block), new_block) ELSE m

\* Lines 84-93: a new block is carved out of the found block's payload.  The
\* code sets its size, prev and next and links it in; it writes neither the
\* new block's free field nor the found block's size.
malloc_split(m, current, aligned_size, new_block) ==
    LET m1 == split_set_size(m, new_block, current, aligned_size)
        m2 == set_prev(m1, new_block, current)
        m3 == split_copy_next(m2, new_block, current)
        m4 == set_next(m3, current, new_block)
    IN  split_fix_prev(m4, new_block)

malloc_maybe_split(m, current, aligned_size) ==
    IF malloc_splits(m, current, aligned_size)
    THEN malloc_split(m, current, aligned_size, Wrap(current + SizeofBlock + aligned_size))
    ELSE m

\* The body of the if at lines 80-96.
malloc_reuse(m, current, aligned_size) ==
    malloc_maybe_split(set_free(m, current, 0), current, aligned_size)

\* Lines 123-133: the first block becomes head and last; any other is linked
\* after last.
malloc_link(m, allocated_block) ==
    IF m.head = NULL
    THEN [m EXCEPT !.head = allocated_block, !.last = allocated_block]
    ELSE [set_next(set_prev(m, allocated_block, m.last), m.last, allocated_block)
             EXCEPT !.last = allocated_block]

\* Lines 115-133: the header of the block at the old break.
malloc_append(m, allocated_block, aligned_size) ==
    LET m1 == set_free(m, allocated_block, 0)
        m2 == set_size(m1, allocated_block, aligned_size)
        m3 == set_next(m2, allocated_block, NULL)
        m4 == set_prev(m3, allocated_block, NULL)
    IN  malloc_link(m4, allocated_block)

\* Lines 110-136, with b what sbrk returned.
malloc_grown(b, aligned_size) ==
    IF b.ret = SbrkFailed
    THEN [m |-> b.m, ret |-> NULL, path |-> "nomem"]
    ELSE [m |-> malloc_append(b.m, b.ret, aligned_size),
          ret |-> Wrap(b.ret + SizeofBlock), path |-> "grow"]

\* Lines 79-136, with f what the search found.
malloc_found(f, aligned_size) ==
    IF Stopped(f.m) THEN [m |-> f.m, ret |-> NULL, path |-> "stopped"]
    ELSE IF f.blk # NULL
    THEN [m |-> malloc_reuse(f.m, f.blk, aligned_size),
          ret |-> Wrap(f.blk + SizeofBlock),
          path |-> IF malloc_splits(f.m, f.blk, aligned_size) THEN "split" ELSE "reuse"]
    ELSE malloc_grown(sbrk(f.m, Wrap(aligned_size + SizeofBlock)), aligned_size)

\* void *my_malloc(size_t size).  path names the return statement taken:
\* "reuse" (line 98, no split), "split" (line 98, after a split), "nomem"
\* (line 112), "grow" (line 136).
my_malloc(m, size) ==
    malloc_found(malloc_search(m, m.head, ALIGN(size), Fuel), ALIGN(size))

\* --------------------------------------------------------------- my_free
\* (mutant) lines 170 and 186 without the header: size += current_fwd->size.
absorb_payload_only(m, into, from) ==
    set_size(m, into, Wrap(Bsize(m, into) + Bsize(m, from)))

\* Line 170: free_block->size += sizeof(Block) + current_fwd->size, and the
\* same statement at line 186.
absorb(m, into, from) ==
    set_size(m, into, Wrap(Bsize(m, into) + SizeofBlock + Bsize(m, from)))

\* The forward loop (lines 168-172): every free successor's size, and a
\* header, is added to free_block's size.  Returns where the walk stopped.
RECURSIVE free_fwd(_, _, _, _)
RECURSIVE free_fwd_at(_, _, _, _)
RECURSIVE free_fwd_step(_, _, _, _)
free_fwd(m, free_block, current_fwd, fuel) ==
    IF current_fwd = NULL THEN [m |-> m, cur |-> NULL]
    ELSE IF fuel = 0 THEN [m |-> [m EXCEPT !.hung = TRUE], cur |-> NULL]
    ELSE free_fwd_at(Deref(m, current_fwd), free_block, current_fwd, fuel)

free_fwd_at(d, free_block, current_fwd, fuel) ==
    IF d.fault THEN [m |-> d, cur |-> NULL]
    ELSE IF Bfree(d, current_fwd) # 1 THEN [m |-> d, cur |-> current_fwd]
    ELSE free_fwd_step(absorb(d, free_block, current_fwd), free_block, current_fwd, fuel)

free_fwd_step(m, free_block, current_fwd, fuel) ==
    free_fwd(m, free_block, Bnext(m, current_fwd), fuel - 1)

\* Line 187: current_bck->next = free_block->next.
bck_copy_next(m, current_bck, free_block) == set_next(m, current_bck, Bnext(m, free_block))

\* Lines 189-191: if (free_block->next != NULL) free_block->next->prev = current_bck.
bck_fix_prev(m, current_bck, free_block) ==
    IF Bnext(m, free_block) # NULL
    THEN set_prev(m, Bnext(m, free_block), current_bck)
    ELSE m

\* The backward loop (lines 183-196): free_block is folded into every free
\* predecessor in turn.
RECURSIVE free_bck(_, _, _, _)
RECURSIVE free_bck_at(_, _, _, _)
RECURSIVE free_bck_step(_, _, _)
free_bck(m, free_block, current_bck, fuel) ==
    IF current_bck = NULL THEN m
    ELSE IF fuel = 0 THEN [m EXCEPT !.hung = TRUE]
    ELSE free_bck_at(Deref(m, current_bck), free_block, current_bck, fuel)

free_bck_at(d, free_block, current_bck, fuel) ==
    IF d.fault THEN d
    ELSE IF Bfree(d, current_bck) # 1 THEN d
    ELSE LET m1 == absorb(d, current_bck, free_block)
             m2 == bck_copy_next(m1, current_bck, free_block)
         IN  free_bck_step(bck_fix_prev(m2, current_bck, free_block), current_bck, fuel)

free_bck_step(m, current_bck, fuel) ==
    free_bck(m, current_bck, Bprev(m, current_bck), fuel - 1)

\* Lines 174-178: free_block->next = current_fwd, and its prev fixed.
free_relink(m, free_block, current_fwd) ==
    IF current_fwd # NULL
    THEN set_prev(set_next(m, free_block, current_fwd), current_fwd, free_block)
    ELSE set_next(m, free_block, current_fwd)

\* Lines 174-196, with f what the forward loop returned.
free_merged(f, free_block) ==
    IF Stopped(f.m) THEN f.m
    ELSE free_bck_step(free_relink(f.m, free_block, f.cur), free_block, Fuel + 1)

\* Lines 164-172.
free_marked(m, free_block) ==
    free_merged(free_fwd(m, free_block, Bnext(m, free_block), Fuel), free_block)

\* (mutant) my_free without the test of line 158.
my_free_unchecked(m, allocated_block) ==
    free_marked(set_free(Deref(m, Wrap(allocated_block - SizeofBlock)),
                         Wrap(allocated_block - SizeofBlock), 1),
                Wrap(allocated_block - SizeofBlock))

\* void my_free(void *allocated_block).  Neither loop touches last.
my_free(m, allocated_block) ==
    IF allocated_block = NULL THEN m
    ELSE free_marked(set_free(Deref(m, Wrap(allocated_block - SizeofBlock)),
                              Wrap(allocated_block - SizeofBlock), 1),
                     Wrap(allocated_block - SizeofBlock))

\* ------------------------------------------------------------- my_calloc
\* Words that hold the first n bytes of a region.
WordsOf(n) == (n + ALIGNMENT - 1) \div ALIGNMENT

\* Bytes of word i that belong to the first n bytes of a region.
BytesIn(i, n) == IF n - ALIGNMENT * i >= ALIGNMENT THEN ALIGNMENT ELSE n - ALIGNMENT * i

\* The word old with its k low-address bytes replaced by those of new (little
\* endian; the size type is at most 16 bits wide, so bytes 2 to 7 are zero).
Bytes(old, new, k) ==
    IF k >= 2 THEN new
    ELSE IF k = 1 THEN (old \div 256) * 256 + (new % 256)
    ELSE old

\* The loop at lines 245-249: ptr[i] = 0 for i < Total_size, a word at a time.
RECURSIVE zero_fill(_, _, _, _)
zero_fill(m, ptr, i, n) ==
    IF ALIGNMENT * i >= n \/ m.fault THEN m
    ELSE zero_fill(St(m, Wrap(ptr + ALIGNMENT * i),
                      Bytes(Ld(m, Wrap(ptr + ALIGNMENT * i)), 0, BytesIn(i, n))),
                   ptr, i + 1, n)

\* (mutant) the check of line 229 as Total_size < size.
calloc_rejects_smaller(value, size) == Wrap(size * value) < size

\* Whether the overflow check at line 229 rejects Total_size.
calloc_rejects(value, size) == (Wrap(size * value) \div value) # size

\* (mutant) lines 237-252 without the loop of lines 245-249.
calloc_not_filled(a, Total_size) ==
    IF a.ret = NULL
    THEN [m |-> a.m, ret |-> NULL, path |-> "nomem", mpath |-> a.path]
    ELSE [m |-> a.m, ret |-> a.ret, path |-> "ok", mpath |-> a.path]

\* Lines 237-252, with a what my_malloc returned.
calloc_filled(a, Total_size) ==
    IF a.ret = NULL
    THEN [m |-> a.m, ret |-> NULL, path |-> "nomem", mpath |-> a.path]
    ELSE [m |-> zero_fill(a.m, a.ret, 0, Total_size),
          ret |-> a.ret, path |-> "ok", mpath |-> a.path]

\* void *my_calloc(size_t value, size_t size).  path: "zero" (line 224),
\* "overflow" (line 230), "nomem" (line 239), "ok" (line 252); mpath is the
\* path my_malloc took, "none" when it was not called.
my_calloc(m, value, size) ==
    IF size = 0 \/ value = 0
    THEN [m |-> m, ret |-> NULL, path |-> "zero", mpath |-> "none"]
    ELSE IF calloc_rejects(value, size)
    THEN [m |-> m, ret |-> NULL, path |-> "overflow", mpath |-> "none"]
    ELSE calloc_filled(my_malloc(m, Wrap(size * value)), Wrap(size * value))

\* ------------------------------------------------------------ my_realloc
\* memcpy(dest, src, n), a word at a time from the low address.
RECURSIVE copy_words(_, _, _, _, _)
copy_word(t, dest, src, k) == St(t, dest, Bytes(Ld(t, dest), Ld(t, src), k))
copy_words(m, dest, src, i, n) ==
    IF ALIGNMENT * i >= n \/ m.fault THEN m
    ELSE copy_words(copy_word(Touch(m, Wrap(src + ALIGNMENT * i)),
                              Wrap(dest + ALIGNMENT * i), Wrap(src + ALIGNMENT * i),
                              BytesIn(i, n)),
                    dest, src, i + 1, n)

\* Copying between regions that overlap is undefined.
memcpy(m, dest, src, n) ==
    copy_words(IF n > 0 /\ dest < src + n /\ src < dest + n
               THEN [m EXCEPT !.undef = TRUE] ELSE m,
               dest, src, 0, n)

\* Whether the shrink path splits (line 294).
realloc_splits(m, current, aligned_size) ==
    Bsize(m, current) >= Wrap(aligned_size + SizeofBlock + ALIGNMENT)

\* Lines 303-305: if (current->next != NULL) current->next->prev = new_block.
shrink_fix_prev(m, current, new_block) ==
    IF Bnext(m, current) # NULL THEN set_prev(m, Bnext(m, current), new_block) ELSE m

\* Lines 297-307: the remainder becomes a new free block after current.  It
\* is not merged with a free successor, and last is not touched.
realloc_split(m, current, aligned_size, new_block) ==
    LET m1 == set_free(m, new_block, 1)
        m2 == set_prev(m1, new_block, current)
        m3 == split_copy_next(m2, new_block, current)
        m4 == split_set_size(m3, new_block, current, aligned_size)
        m5 == shrink_fix_prev(m4, current, new_block)
    IN  set_next(m5, current, new_block)

realloc_maybe_split(m, current, aligned_size) ==
    IF realloc_splits(m, current, aligned_size)
    THEN realloc_split(m, current, aligned_size, Wrap(current + SizeofBlock + aligned_size))
    ELSE m

\* Lines 291-315: the block keeps its address and gets the new size.
realloc_shrink(m, current, aligned_size) ==
    set_size(realloc_maybe_split(m, current, aligned_size), current, aligned_size)

\* Lines 328-331: the old block's size bytes are copied and the old block freed.
realloc_move(m, new_ptr, ptr, current) ==
    my_free(memcpy(m, new_ptr, ptr, Bsize(m, current)), ptr)

\* (mutant) lines 322-325 freeing the old block before the return of NULL.
realloc_moved_freeing(a, ptr, current) ==
    IF a.ret = NULL
    THEN [m |-> my_free(a.m, ptr), ret |-> NULL, path |-> "nomem", mpath |-> a.path]
    ELSE [m |-> realloc_move(a.m, a.ret, ptr, current),
          ret |-> a.ret, path |-> "grow", mpath |-> a.path]

\* Lines 322-333, with a what my_malloc returned.
realloc_moved(a, ptr, current) ==
    IF a.ret = NULL
    THEN [m |-> a.m, ret |-> NULL, path |-> "nomem", mpath |-> a.path]
    ELSE [m |-> realloc_move(a.m, a.ret, ptr, current),
          ret |-> a.ret, path |-> "grow", mpath |-> a.path]

\* Lines 318-335.
realloc_grow(m, ptr, current, aligned_size) ==
    realloc_moved(my_malloc(m, aligned_size), ptr, current)

\* Lines 288-341, with d the machine after current was dereferenced.
realloc_resize(d, ptr, current, aligned_size) ==
    IF d.fault THEN [m |-> d, ret |-> NULL, path |-> "stopped", mpath |-> "none"]
    ELSE IF Bsize(d, current) >= aligned_size
    THEN [m |-> realloc_shrink(d, current, aligned_size), ret |-> ptr,
          path |-> IF realloc_splits(d, current, aligned_size) THEN "shrinksplit" ELSE "shrink",
          mpath |-> "none"]
    ELSE realloc_grow(d, ptr, current, aligned_size)

\* Line 278: return my_malloc(size).
realloc_null(a) == [m |-> a.m, ret |-> a.ret, path |-> "malloc", mpath |-> a.path]

\* void *my_realloc(void *ptr, size_t size).  path: "malloc" (line 278),
\* "free" (line 284), "shrink" / "shrinksplit" (line 313), "nomem" (line 324),
\* "grow" (line 333).
my_realloc(m, ptr, size) ==
    IF ptr = NULL THEN realloc_null(my_malloc(m, size))
    ELSE IF size = 0
    THEN [m |-> my_free(m, ptr), ret |-> NULL, path |-> "free", mpath |-> "none"]
    ELSE realloc_resize(Deref(m, Wrap(ptr - SizeofBlock)), ptr,
                        Wrap(ptr - SizeofBlock), ALIGN(size))

\* ------------------------------------------------------- my_malloc_stats
\* Lines 374-384.  used_bytes and free_bytes are assigned, not added to: each
\* ends as the size of the last block of its kind.
stats_count(acc, f, z) ==
    IF f = 0
    THEN [acc EXCEPT !.total_blocks = @ + 1, !.used_blocks = @ + 1, !.used_bytes = z]
    ELSE IF f = 1
    THEN [acc EXCEPT !.total_blocks = @ + 1, !.free_blocks = @ + 1, !.free_bytes = z]
    ELSE [acc EXCEPT !.total_blocks = @ + 1]

\* The loop at lines 372-388.
RECURSIVE stats_walk(_, _, _, _)
RECURSIVE stats_walk_at(_, _, _, _, _)
stats_walk(m, current, acc, fuel) ==
    IF current = NULL THEN acc
    ELSE IF fuel = 0 THEN [acc EXCEPT !.hung = TRUE]
    ELSE stats_walk_at(Deref(m, current), m, current, acc, fuel)

stats_walk_at(d, m, current, acc, fuel) ==
    IF d.fault THEN [acc EXCEPT !.fault = TRUE]
    ELSE stats_walk(m, Bnext(m, current),
                    [stats_count(acc, Bfree(m, current), Bsize(m, current))
                        EXCEPT !.undef = @ \/ d.undef],
                    fuel - 1)

my_malloc_stats(m) ==
    stats_walk(m, m.head,
               [total_blocks |-> 0, free_blocks |-> 0, used_blocks |-> 0,
                used_bytes |-> 0, free_bytes |-> 0,
                fault |-> FALSE, undef |-> FALSE, hung |-> FALSE],
               Fuel)

\* ------------------------------------------------------------ the program
\* mem, head, last, brk: the process (the arena's words, the two globals of
\*     Main.c and the program break).
\* live:   the pointers the caller holds, each with the bytes it asked for.
\* op:     the last call: its arguments, its result and the return it took.
\* past:   the call before the last.
\* status: "ok", or how the process ended ("crashed", "hung").
\* steps:  calls made.  budget: calls the run may make.
VARIABLES mem, head, last, brk, live, op, past, status, steps, budget

vars == <<mem, head, last, brk, live, op, past, status, steps, budget>>

\* Sizes the caller asks for: one that is not a multiple of 8, one the size of
\* the example of the specification, one large enough to be split.
Sizes == {1, 16, 88}
\* Arguments of my_calloc: a zero count, exact and inexact totals, an overflow.
CallocArgs == {<<0, 8>>, <<2, 4>>, <<3, 5>>, <<M \div 2, 2>>}
\* Sizes the caller resizes to.
ReallocSizes == {0, 8, 48, 88}
\* What the caller stores in its memory.
StoreVals == {1, 2}
\* Sizes asked for in the runs that free blocks in every order.
FreeSizes == {1, 16, 56}
\* Sizes asked for, and the sizes resized to, in the runs that resize.
ResizeSizes == {1, 24}
ResizeTo == {48}
\* Every value of the size type.
AllSizes == 0 .. (M - 1)

Mach == [mem |-> mem, head |-> head, last |-> last, brk |-> brk,
         fault |-> FALSE, undef |-> FALSE, hung |-> FALSE]

\* ----------------------------------------------------------------- views
\* The block list as the code sees it: the addresses met from b following
\* next, cut where the walk leaves the memory or has made n steps.
RECURSIVE Chain(_, _, _)
Chain(m, b, n) ==
    IF b = NULL \/ n = 0 \/ Deref(m, b).fault THEN << >>
    ELSE <<b>> \o Chain(m, Bnext(m, b), n - 1)

Blocks == Chain(Mach, head, Fuel)
Payload(b) == b + SizeofBlock
Header(p) == p - SizeofBlock

\* The list as a caller could print it: address, size and flag of each block.
View(m) == [i \in 1 .. Len(Chain(m, m.head, Fuel)) |->
               [at |-> Chain(m, m.head, Fuel)[i],
                size |-> Bsize(m, Chain(m, m.head, Fuel)[i]),
                free |-> Bfree(m, Chain(m, m.head, Fuel)[i])]]

\* The blocks of a list: its entries up to the first that repeats an address
\* (all of them when the list has no cycle).
RECURSIVE Upto(_, _)
Upto(V, n) ==
    IF n >= Len(V) \/ \E j \in 1 .. n : V[j].at = V[n + 1].at
    THEN SubSeq(V, 1, n)
    ELSE Upto(V, n + 1)

BlocksOf(V) == Upto(V, 0)

ListView == BlocksOf(View(Mach))

\* The record of a call: its arguments, its result, the return it took and
\* the list it was made on.
Call(name, ptr, size, ret, path, mpath) ==
    [name |-> name, ptr |-> ptr, size |-> size, ret |-> ret, path |-> path,
     mpath |-> mpath, pre |-> ListView]

Put(f, k, v) == [x \in (DOMAIN f) \cup {k} |-> IF x = k THEN v ELSE f[x]]
Del(f, k) == [x \in (DOMAIN f) \ {k} |-> f[x]]

InitMachine ==
    /\ mem = [i \in 0 .. (NW - 1) |-> 0]
    /\ head = NULL
    /\ last = NULL
    /\ brk = Base
    /\ live = << >>
    /\ op = Call("init", NULL, 0, NULL, "none", "none")
    /\ past = Call("init", NULL, 0, NULL, "none", "none")
    /\ status = "ok"
    /\ steps = 0

Init == InitMachine /\ budget = MaxOps

\* How a call that ran to the machine state m can end.
Outcomes(m) ==
    IF m.fault THEN {"crashed"}
    ELSE IF m.hung THEN {"hung"}
    ELSE IF m.undef THEN {"ok", "crashed"}
    ELSE {"ok"}

\* The call returns with the machine in m, or the process ends in it.
Return(m, o, lv) ==
    \E out \in Outcomes(m) :
        /\ status' = out
        /\ steps' = steps + 1
        /\ budget' = budget
        /\ past' = op
        /\ IF out = "ok"
           THEN /\ mem' = m.mem
                /\ head' = m.head
                /\ last' = m.last
                /\ brk' = m.brk
                /\ live' = lv
                /\ op' = o
           ELSE /\ UNCHANGED <<mem, head, last, brk, live>>
                /\ op' = [o EXCEPT !.ret = NULL, !.path = out, !.mpath = out]

CanCall == status = "ok" /\ steps < budget

MallocReturn(r, size) ==
    Return(r.m, Call("malloc", NULL, size, r.ret, r.path, r.path),
           IF r.ret # NULL THEN Put(live, r.ret, size) ELSE live)

Malloc(size) == CanCall /\ MallocReturn(my_malloc(Mach, size), size)

Free(p) ==
    /\ CanCall
    /\ Return(my_free(Mach, p), Call("free", p, 0, NULL, "none", "none"), Del(live, p))

\* The caller's view of the bytes it asked my_calloc for: the product, or M
\* for any product that does not fit the size type.
Product(value, size) == IF value * size >= M THEN M ELSE value * size

CallocReturn(r, total) ==
    Return(r.m, Call("calloc", NULL, total, r.ret, r.path, r.mpath),
           IF r.ret # NULL THEN Put(live, r.ret, total) ELSE live)

Calloc(value, size) ==
    CanCall /\ CallocReturn(my_calloc(Mach, value, size), Product(value, size))

ReallocReturn(r, p, size) ==
    Return(r.m, Call("realloc", p, size, r.ret, r.path, r.mpath),
           IF r.ret # NULL THEN Put(Del(live, p), r.ret, size)
           ELSE IF r.path = "free" THEN Del(live, p)
           ELSE live)

Realloc(p, size) == CanCall /\ ReallocReturn(my_realloc(Mach, p, size), p, size)

\* The caller stores the byte v at every eighth byte of the bytes it asked
\* for (as main does with strcpy and strcat).
RECURSIVE store_words(_, _, _, _, _)
store_words(m, ptr, i, n, v) ==
    IF ALIGNMENT * i >= n \/ m.fault THEN m
    ELSE store_words(St(m, Wrap(ptr + ALIGNMENT * i),
                        Bytes(Ld(m, Wrap(ptr + ALIGNMENT * i)), v, 1)),
                     ptr, i + 1, n, v)

Store(p, v) ==
    /\ CanCall
    /\ live[p] > 0
    /\ Return(store_words(Mach, p, 0, live[p], v),
              Call("store", p, v, NULL, "none", "none"), live)

\* my_malloc_stats() stores nothing: the call leaves the state as it is,
\* unless its walk ends the process.  What it prints is my_malloc_stats(Mach).
StatsReturn(r) ==
    \E out \in Outcomes([Mach EXCEPT !.fault = r.fault, !.undef = r.undef, !.hung = r.hung]) :
        /\ status' = out
        /\ UNCHANGED <<mem, head, last, brk, live, op, past, steps, budget>>

Stats == CanCall /\ StatsReturn(my_malloc_stats(Mach))

Next ==
    \/ \E size \in Sizes : Malloc(size)
    \/ \E p \in (DOMAIN live) \cup {NULL} : Free(p)
    \/ \E a \in CallocArgs : Calloc(a[1], a[2])
    \/ \E p \in DOMAIN live, size \in ReallocSizes : Realloc(p, size)
    \/ Realloc(NULL, 16)
    \/ \E p \in DOMAIN live, v \in StoreVals : Store(p, v)
    \/ Stats

Spec == Init /\ [][Next]_vars

\* Runs of WideOps calls in which my_malloc is given any size of the size type.
InitWide == InitMachine /\ budget = WideOps

NextWide ==
    \/ \E size \in AllSizes : Malloc(size)
    \/ \E p \in (DOMAIN live) \cup {NULL} : Free(p)

SpecWide == InitWide /\ [][NextWide]_vars

\* Runs of CoalesceOps calls of my_malloc and my_free alone.
InitFree == InitMachine /\ budget = CoalesceOps

NextFree ==
    \/ \E size \in FreeSizes : Malloc(size)
    \/ \E p \in DOMAIN live : Free(p)

SpecFree == InitFree /\ [][NextFree]_vars

\* Runs of ResizeOps calls of my_malloc, my_free and my_realloc.
InitResize == InitMachine /\ budget = ResizeOps

NextResize ==
    \/ \E size \in ResizeSizes : Malloc(size)
    \/ \E p \in DOMAIN live : Free(p)
    \/ \E p \in DOMAIN live, size \in ResizeTo : Realloc(p, size)

SpecResize == InitResize /\ [][NextResize]_vars

\* Runs of at most CallocOps calls of my_malloc and my_free that end with
\* my_calloc of any two values of the size type.
InitCalloc == InitMachine /\ budget = CallocOps

CallocAny == \E value \in AllSizes, size \in AllSizes : Calloc(value, size)

NextCalloc ==
    /\ op.name # "calloc"
    /\ \/ \E size \in Sizes : Malloc(size)
       \/ \E p \in DOMAIN live : Free(p)
       \/ CallocAny

SpecCalloc == InitCalloc /\ [][NextCalloc]_vars

\* ------------------------------------------------------------------ C1
\* C1: for every size s of the size type, a non-null pointer returned by
\* my_malloc is 8-byte aligned and the size field of its block is at least s.
C1_AlignedAndLargeEnough ==
    (status = "ok" /\ op.name = "malloc" /\ op.ret # NULL)
        => /\ op.ret % ALIGNMENT = 0
           /\ Bsize(Mach, Header(op.ret)) >= op.size

\* ------------------------------------------------------------------ C2
\* A step that is a call of name returning to the caller.
Returned(name) == status' = "ok" /\ steps' = steps + 1 /\ op'.name = name

\* The positions in the list, before the call, of the blocks that are free
\* (the flag is 1) with a size of at least n.
FitsAt(n) ==
    {i \in 1 .. Len(Blocks) : Bfree(Mach, Blocks[i]) = 1 /\ Bsize(Mach, Blocks[i]) >= n}

Min(S) == CHOOSE x \in S : \A y \in S : x <= y

\* C2: my_malloc(s) returns the payload of the first block, in list order from
\* head, that is free with size >= ALIGN(s), and then the break does not
\* move; only when no block of the list fits does it ask the OS for memory,
\* and then it returns NULL or the payload of a block at the old break.
C2_FirstFit ==
    [][Returned("malloc") =>
          IF FitsAt(ALIGN(op'.size)) # {}
          THEN /\ op'.ret = Payload(Blocks[Min(FitsAt(ALIGN(op'.size)))])
               /\ brk' = brk
          ELSE op'.ret = NULL \/ op'.ret = Payload(brk)]_vars

\* The example of the specification: A = malloc(16), B = malloc(16), free(A),
\* then malloc(16) has returned A's payload and no third block exists.
C2_Witness ==
    /\ status = "ok" /\ op.name = "malloc" /\ op.size = 16 /\ op.path = "reuse"
    /\ op.ret = Payload(head)
    /\ Len(Blocks) = 2
    /\ Bsize(Mach, Blocks[1]) = 16 /\ Bsize(Mach, Blocks[2]) = 16
    /\ Bfree(Mach, Blocks[2]) = 0
    /\ brk = Base + 2 * (SizeofBlock + 16)

\* ------------------------------------------------------------------ C3
\* The machine after the step.
MachAfter == [mem |-> mem', head |-> head', last |-> last', brk |-> brk',
              fault |-> FALSE, undef |-> FALSE, hung |-> FALSE]

\* A step that calls name, whether or not the call returns.
Calls(name) == steps' = steps + 1 /\ op'.name = name

\* The last two calls were p = my_malloc(s), which succeeded, and my_free(p).
AllocatedThenFreed(s) ==
    /\ past.name = "malloc" /\ past.size = s /\ past.ret # NULL
    /\ op.name = "free" /\ op.ptr = past.ret

\* C3: after p = my_malloc(s); my_free(p), the call q = my_malloc(s) returns
\* a block without moving the break, and the size field of q's block is
\* ALIGN(s).
C3_ReuseRoundTrip ==
    [][(Calls("malloc") /\ AllocatedThenFreed(op'.size)) =>
          /\ status' = "ok"
          /\ op'.ret # NULL
          /\ brk' = brk
          /\ Bsize(MachAfter, Header(op'.ret)) = ALIGN(op'.size)]_vars

\* ------------------------------------------------------------------ C4
RECURSIVE SumSizes(_, _, _)
SumSizes(V, i, k) == IF k = 0 THEN 0 ELSE V[i].size + SumSizes(V, i + 1, k - 1)

\* In the list V the k blocks from position i are used, each ends where the
\* next begins, the blocks before and after them are used or absent, and ps
\* are their k payloads.
RunAt(V, i, k, ps) ==
    /\ i + k - 1 <= Len(V)
    /\ \A j \in i .. (i + k - 1) : V[j].free # 1
    /\ \A j \in i .. (i + k - 2) : V[j + 1].at = V[j].at + SizeofBlock + V[j].size
    /\ i > 1 => V[i - 1].free # 1
    /\ i + k <= Len(V) => V[i + k].free # 1
    /\ ps = {Payload(V[j].at) : j \in i .. (i + k - 1)}

\* The list V with the k blocks from position i made one free block.
Coalesced(V, i, k) ==
    [j \in 1 .. (Len(V) - (k - 1)) |->
        IF j < i THEN V[j]
        ELSE IF j = i
        THEN [at |-> V[i].at,
              size |-> SumSizes(V, i, k) + (k - 1) * SizeofBlock,
              free |-> 1]
        ELSE V[j + k - 1]]

C5_NoAdjacentFree ==
    \A i \in 1 .. (Len(ListView) - 1) :
        ~(ListView[i].free = 1 /\ ListView[i + 1].free = 1)

\* ------------------------------------------------------------------ C6
\* The n bytes at p are, word for word, what they were before the step (the
\* words that hold them: a little more than the n bytes when n is not a
\* multiple of 8).
SameBytes(p, n) ==
    \A i \in 0 .. (WordsOf(n) - 1) :
        Ld(MachAfter, p + ALIGNMENT * i) = Ld(Mach, p + ALIGNMENT * i)

\* The step calls my_realloc(p, newSize) with p a pointer the caller holds,
\* newSize > 0 and ALIGN(newSize) at most the size of p's block.
ShrinkCall ==
    /\ Calls("realloc")
    /\ op'.ptr \in DOMAIN live
    /\ op'.size > 0
    /\ ALIGN(op'.size) <= Bsize(Mach, Header(op'.ptr))

\* C6: my_realloc(p, newSize) with 0 < newSize and ALIGN(newSize) <= the size
\* of p's block returns p, writes none of the first newSize bytes of the
\* payload, and leaves ALIGN(newSize) in the size field of p's block.
C6_ShrinkInPlace ==
    [][ShrinkCall =>
          /\ status' = "ok"
          /\ op'.ret = op'.ptr
          /\ SameBytes(op'.ptr, op'.size)
          /\ Bsize(MachAfter, Header(op'.ptr)) = ALIGN(op'.size)]_vars

\* ------------------------------------------------------------------ C7
\* The step calls my_realloc(p, newSize) with p a pointer the caller holds,
\* newSize > 0 and ALIGN(newSize) more than the size of p's block.
GrowCall ==
    /\ Calls("realloc")
    /\ op'.ptr \in DOMAIN live
    /\ op'.size > 0
    /\ Bsize(Mach, Header(op'.ptr)) < ALIGN(op'.size)

\* After the step the n bytes at q are the n bytes that were at p before it.
MovedBytes(q, p, n) ==
    \A i \in 0 .. (WordsOf(n) - 1) :
        Ld(MachAfter, q + ALIGNMENT * i) = Ld(Mach, p + ALIGNMENT * i)

\* After the step the block b is free, or lies in a free block of the list.
FreeAfter(b) ==
    \/ Bfree(MachAfter, b) = 1
    \/ \E i \in 1 .. Len(View(MachAfter)) :
          /\ View(MachAfter)[i].free = 1
          /\ View(MachAfter)[i].at < b
          /\ b < View(MachAfter)[i].at + SizeofBlock + View(MachAfter)[i].size

\* C7: a call my_realloc(p, newSize) on a block of size oldSize <
\* ALIGN(newSize) that returns q # NULL leaves at q the oldSize bytes that
\* were at p, q's block used with size >= newSize, and p's block free or
\* inside a free block.
C7_GrowMoves ==
    [][(GrowCall /\ status' = "ok" /\ op'.ret # NULL) =>
          /\ MovedBytes(op'.ret, op'.ptr, Bsize(Mach, Header(op'.ptr)))
          /\ Bfree(MachAfter, Header(op'.ret)) = 0
          /\ Bsize(MachAfter, Header(op'.ret)) >= op'.size
          /\ FreeAfter(Header(op'.ptr))]_vars

\* ------------------------------------------------------------------ C8
\* The step is a call of my_malloc, my_calloc or my_realloc that reached
\* sbrk, which refused to move the break.  (A call that ends the process
\* does so in the search of the list, before sbrk is called.)
Refused ==
    /\ steps' = steps + 1
    /\ status' = "ok"
    /\ op'.name \in {"malloc", "calloc", "realloc"}
    /\ op'.mpath = "nomem"

\* my_malloc on the machine m, whose list is V, returns a block for every
\* size that fits a free block of V.
StillServes(V, m) ==
    \A size \in Sizes :
        (\E i \in 1 .. Len(V) : V[i].free = 1 /\ V[i].size >= ALIGN(size))
            => my_malloc(m, size).ret # NULL

\* C8: a call in which sbrk fails returns NULL and leaves head, last, the
\* break and every byte of the arena (so every header and every payload) as
\* they were; a my_malloc of a size that fits a free block of the list then
\* still succeeds.
C8_FailureChangesNothing ==
    [][Refused =>
          /\ op'.ret = NULL
          /\ mem' = mem /\ head' = head /\ last' = last /\ brk' = brk
          /\ live' = live
          /\ StillServes(View(MachAfter), MachAfter)]_vars

\* my_realloc has failed to grow a block that holds what the caller stored,
\* while the list has a free block.
C8_Witness ==
    /\ status = "ok" /\ op.name = "realloc" /\ op.ptr # NULL
    /\ op.path = "nomem" /\ op.mpath = "nomem" /\ op.ret = NULL
    /\ op.ptr \in DOMAIN live
    /\ Ld(Mach, op.ptr) \in StoreVals
    /\ Bfree(Mach, Header(op.ptr)) = 0
    /\ \E i \in 1 .. Len(ListView) : ListView[i].free = 1

\* ------------------------------------------------------------------ C9
\* C9: my_calloc(count, elemSize) with count > 0 and elemSize > 0 returns NULL
\* at line 230, before my_malloc is called and with the arena, head, last and
\* the break as they were, when count * elemSize >= 2^w; and it does not
\* return at line 230 when count * elemSize < 2^w.  (op.size is the product,
\* M standing for every product of at least 2^w.)
C9_OverflowCheckExact ==
    [][Calls("calloc") =>
          /\ op'.size = M =>
                /\ status' = "ok"
                /\ op'.ret = NULL /\ op'.path = "overflow" /\ op'.mpath = "none"
                /\ mem' = mem /\ head' = head /\ last' = last /\ brk' = brk
          /\ op'.size \in 1 .. (M - 1) => op'.path # "overflow"]_vars

\* my_calloc has rejected a product of at least 2^w on a list with a block.
C9_Witness ==
    /\ status = "ok" /\ op.name = "calloc" /\ op.size = M
    /\ op.path = "overflow" /\ op.ret = NULL
    /\ head # NULL

\* ----------------------------------------------------------------- C10
\* The first n bytes at p are zero.
ZeroBytes(p, n) ==
    \A i \in 0 .. (WordsOf(n) - 1) :
        Bytes(0, Ld(Mach, p + ALIGNMENT * i), BytesIn(i, n)) = 0

\* C10: when my_calloc(n, k) has returned a pointer that is not NULL, its
\* block is used, has a size of at least n * k, and the first n * k bytes of
\* the payload are zero.
C10_ZeroFilled ==
    (status = "ok" /\ op.name = "calloc" /\ op.ret # NULL)
        => /\ Bfree(Mach, Header(op.ret)) = 0
           /\ Bsize(Mach, Header(op.ret)) >= op.size
           /\ ZeroBytes(op.ret, op.size)

\* my_calloc(2, 4) has reused a block of 16 bytes the caller had written:
\* the first 8 bytes are zero, the next 8 still hold what was stored.
C10_Witness ==
    /\ status = "ok" /\ op.name = "calloc" /\ op.mpath = "reuse" /\ op.size = 8
    /\ op.ret # NULL
    /\ Ld(Mach, op.ret) = 0
    /\ Ld(Mach, op.ret + ALIGNMENT) \in StoreVals

\* ------------------------------------------------------------------ C11
\* C11: in any reachable state, my_free(NULL) returns and leaves head, last,
\* the break and every word of the arena (so every block header) as they were.
C11_FreeNullChangesNothing ==
    [][(Calls("free") /\ op'.ptr = NULL) =>
          /\ status' = "ok"
          /\ mem' = mem
          /\ head' = head
          /\ last' = last
          /\ brk' = brk
          /\ live' = live]_vars

\* my_free(NULL) has returned on a list that holds a used and a free block.
C11_Witness ==
    /\ status = "ok"
    /\ op.name = "free"
    /\ op.ptr = NULL
    /\ \E i, j \in 1 .. Len(ListView) : ListView[i].free = 0 /\ ListView[j].free = 1

\* ------------------------------------------------------------------ C12
\* The sum, in the size type, of the sizes of the blocks of V whose flag is f.
RECURSIVE SizeSum(_, _, _)
SizeSum(V, f, n) ==
    IF n = 0 THEN 0
    ELSE Wrap(SizeSum(V, f, n - 1) + (IF V[n].free = f THEN V[n].size ELSE 0))

CountOf(V, f) == Cardinality({i \in 1 .. Len(V) : V[i].free = f})

\* C12: in any reachable state, what my_malloc_stats reports as used bytes is
\* the sum of the sizes of the used blocks reachable from head, as free bytes
\* the sum of the sizes of the free blocks, and as total blocks the used
\* blocks plus the free blocks.
C12_StatsAdditive ==
    (status = "ok" /\ ~my_malloc_stats(Mach).fault /\ ~my_malloc_stats(Mach).hung)
        => /\ my_malloc_stats(Mach).used_bytes = SizeSum(ListView, 0, Len(ListView))
           /\ my_malloc_stats(Mach).free_bytes = SizeSum(ListView, 1, Len(ListView))
           /\ my_malloc_stats(Mach).used_blocks = CountOf(ListView, 0)
           /\ my_malloc_stats(Mach).free_blocks = CountOf(ListView, 1)
           /\ my_malloc_stats(Mach).total_blocks =
                  my_malloc_stats(Mach).used_blocks + my_malloc_stats(Mach).free_blocks

\* ------------------------------------------------------------------ C13
\* my_malloc returns a block of the list that was free with room for the
\* request, a header and 8 bytes more.
ReusesWithRoom ==
    /\ Returned("malloc")
    /\ FitsAt(ALIGN(op'.size)) # {}
    /\ op'.ret # NULL
    /\ Bsize(Mach, Header(op'.ret)) >= ALIGN(op'.size) + SizeofBlock + ALIGNMENT

\* C13: when my_malloc(s) reuses a free block of size c >= ALIGN(s) + 32 + 8,
\* on return the block's size field is ALIGN(s), and its next is a block at
\* payload + ALIGN(s) whose size is c - ALIGN(s) - 32.
C13_SplitShrinks ==
    [][ReusesWithRoom =>
          /\ Bsize(MachAfter, Header(op'.ret)) = ALIGN(op'.size)
          /\ Bnext(MachAfter, Header(op'.ret)) = op'.ret + ALIGN(op'.size)
          /\ Bsize(MachAfter, op'.ret + ALIGN(op'.size)) =
                 Bsize(Mach, Header(op'.ret)) - ALIGN(op'.size) - SizeofBlock]_vars

\* ------------------------------------------------------------------ C14
\* my_realloc returns from its shrink path after a split: the block had room
\* for the new size, a header and 8 bytes more.
ShrinksWithRoom ==
    /\ Returned("realloc")
    /\ op'.ptr # NULL
    /\ op'.size # 0
    /\ op'.ret = op'.ptr
    /\ Bsize(Mach, Header(op'.ptr)) >= ALIGN(op'.size) + SizeofBlock + ALIGNMENT

\* C14: the remainder block of a split, in my_malloc and in the shrink path of
\* my_realloc, is marked free when the call returns, whatever the memory that
\* now holds its header held before.
C14_RemainderIsFree ==
    [][(ReusesWithRoom \/ ShrinksWithRoom) =>
          Bfree(MachAfter, op'.ret + ALIGN(op'.size)) = 1]_vars

\* ------------------------------------------------------------------ C15
\* C15: in every reachable state, following next from head visits blocks at
\* strictly increasing addresses.
C15_AddressOrder ==
    status = "ok" => \A i \in 1 .. (Len(Blocks) - 1) : Blocks[i] < Blocks[i + 1]

\* ------------------------------------------------------------------ C16
\* C16: in every reachable state with a non-empty list, last is the final
\* block reachable from head by next, and its next is NULL.
C16_LastIsFinal ==
    (status = "ok" /\ head # NULL)
        => /\ Len(Blocks) > 0
           /\ last = Blocks[Len(Blocks)]
           /\ Bnext(Mach, last) = NULL

\* ------------------------------------------------------------------ C17
\* The bytes [p, p + size of p's block) and the bytes [a, a + n) meet.
RangeMeets(p, a, n) == a < p + Bsize(Mach, Header(p)) /\ p < a + n

\* C17: in every reachable state the byte ranges [p, p + block size) of two
\* distinct pointers the caller holds are disjoint, and none of them holds
\* bytes of the header of a block reachable from head.
C17_NoOverlap ==
    status = "ok" =>
        /\ \A p, q \in DOMAIN live :
               p # q => ~RangeMeets(p, q, Bsize(Mach, Header(q)))
        /\ \A p \in DOMAIN live : \A i \in 1 .. Len(Blocks) :
               ~RangeMeets(p, Blocks[i], SizeofBlock)

\* ------------------------------------------------------------------ C18
\* C18: in every reachable state with a non-empty list, head is at the start
\* of the arena, every block b of the list with a next has it at b + 32 +
\* b->size, and the final block ends at the break.
C18_ExactTiling ==
    (status = "ok" /\ head # NULL)
        => /\ head = Base
           /\ Len(Blocks) > 0
           /\ \A i \in 1 .. Len(Blocks) :
                  Blocks[i] + SizeofBlock + Bsize(Mach, Blocks[i]) =
                      (IF Bnext(Mach, Blocks[i]) # NULL THEN Bnext(Mach, Blocks[i]) ELSE brk)

\* ------------------------------------------------------------------ C19
\* C19: in every reachable state with a non-empty list, head->prev is NULL
\* and every block b of the list with a next has b->next->prev = b.
C19_LinksConsistent ==
    (status = "ok" /\ head # NULL)
        => /\ Bprev(Mach, head) = NULL
           /\ \A i \in 1 .. Len(Blocks) :
                  Bnext(Mach, Blocks[i]) # NULL
                      => Bprev(Mach, Bnext(Mach, Blocks[i])) = Blocks[i]

\* ------------------------------------------------------------------ C20
\* C20: in every reachable state no call has failed to terminate, and the
\* next chain from head meets no block twice (so it reaches NULL).
C20_Terminates ==
    /\ status # "hung"
    /\ status = "ok" =>
           \A i, j \in 1 .. Len(Blocks) : Blocks[i] = Blocks[j] => i = j

\* ------------------------------------------------------------------ C21
\* The blocks of the list whose flag is not 1 (free).
UsedBlocks == {Blocks[i] : i \in {j \in 1 .. Len(Blocks) : Bfree(Mach, Blocks[j]) # 1}}

\* The blocks of the pointers the caller holds.
OwnedBlocks == {Header(p) : p \in DOMAIN live}

\* C21: in every reachable state the blocks reachable from head that are not
\* marked free are exactly the blocks of the pointers the caller holds.
C21_UsedAreLive == status = "ok" => UsedBlocks = OwnedBlocks

=============================================================================
